---- MODULE Spec2Model ----
(***************************************************************************)
(* A model of minecraft_block_finder (src/src/main.rs): the resolution of  *)
(* a region file's origin from its name, the two-tier distance pruning,    *)
(* the chunk scan, the parallel per-file fan-out and the post-processing   *)
(* of the collected results.                                               *)
(*                                                                         *)
(* All coordinate arithmetic of the program is i32.  An i32 overflow       *)
(* panics in a build with overflow checks (the dev profile) and wraps      *)
(* modulo 2^32 in a build without them (the release profile); the model    *)
(* keeps both outcomes.  Products that do not fit the model checker's own  *)
(* integers are computed on 16-bit halves.                                 *)
(***************************************************************************)
EXTENDS Integers, Sequences, FiniteSets, TLC

(***************************************************************************)
(* i32 arithmetic                                                          *)
(***************************************************************************)
MaxI32 == 2147483647
MinI32 == -MaxI32 - 1

\* 2^16 and 2^15: products are computed on 16-bit halves.
Half == 256 * 256
HalfTop == 128 * 256

\* p1 * 2^8 + p0 as 16-bit halves, for p0 and p1 below 2^24.
Halves(p0, p1) ==
    [hi |-> p1 \div 256 + ((p1 % 256) * 256 + p0) \div Half,
     lo |-> ((p1 % 256) * 256 + p0) % Half]

\* The product of two 16-bit numbers x and y, as 16-bit halves: x * y does
\* not fit the model checker's integers, x's low and high byte times y do.
Mul16(x, y) == Halves((x % 256) * y, (x \div 256) * y)

\* |a| as 16-bit halves; |MinI32| = 2^31 has no i32 of its own.
Mag16(a) ==
    IF a = MinI32 THEN [hi |-> HalfTop, lo |-> 0]
    ELSE IF a < 0 THEN [hi |-> (-a) \div Half, lo |-> (-a) % Half]
    ELSE [hi |-> a \div Half, lo |-> a % Half]

\* The 16-bit limbs, the lowest first, of l0 + s1 * 2^16 + s2 * 2^32 +
\* h * 2^48: the carries of s1 and s2 go up.
Limbs(l0, s1, s2, h) ==
    << l0, s1 % Half, (s2 + s1 \div Half) % Half,
       h + (s2 + s1 \div Half) \div Half >>

\* The limbs of the sum of the four partial products of the halves.
Partial(ll, lh, hl, hh) ==
    Limbs(ll.lo, ll.hi + lh.lo + hl.lo, lh.hi + hl.hi + hh.lo, hh.hi)

\* The product of the magnitudes A and B, given as halves, as four limbs.
MagHalves(A, B) ==
    Partial(Mul16(A.lo, B.lo), Mul16(A.lo, B.hi),
            Mul16(A.hi, B.lo), Mul16(A.hi, B.hi))

\* |a| * |b| as four 16-bit limbs, the lowest first.
MagProduct(a, b) == MagHalves(Mag16(a), Mag16(b))

\* The i32 with the two's-complement halves hi and lo.
FromHalves(hi, lo) ==
    IF hi >= HalfTop THEN (hi - Half) * Half + lo ELSE hi * Half + lo

\* The i32 result of a product with magnitude P, negative or not: ovf says
\* the product is no i32, val is the product modulo 2^32 (the low halves
\* of the magnitude, negated for a negative product).
Signed(P, negative) ==
    [ ovf |-> ~ /\ P[4] = 0
                /\ P[3] = 0
                /\ \/ P[2] < HalfTop
                   \/ negative /\ P[2] = HalfTop /\ P[1] = 0,
      val |-> IF ~negative THEN FromHalves(P[2], P[1])
              ELSE IF P[1] = 0 THEN FromHalves((Half - P[2]) % Half, 0)
              ELSE FromHalves(Half - 1 - P[2], Half - P[1]) ]

\* a * b in i32.
Mul32(a, b) ==
    Signed(MagProduct(a, b), (a < 0 /\ b > 0) \/ (a > 0 /\ b < 0))

\* a + b in i32: val is the sum modulo 2^32.
Add32(a, b) ==
    LET up   == b > 0 /\ a > MaxI32 - b
        down == b < 0 /\ a < MinI32 - b
    IN  [ ovf |-> up \/ down,
          val |-> IF up THEN (a - MaxI32 - 1) + (b - MaxI32 - 1)
                  ELSE IF down THEN (a + MaxI32 + 1) + (b + MaxI32 + 1)
                  ELSE a + b ]

\* a - b in i32: val is the difference modulo 2^32.
Sub32(a, b) ==
    LET up   == b < 0 /\ a > MaxI32 + b
        down == b > 0 /\ a < MinI32 + b
    IN  [ ovf |-> up \/ down,
          val |-> IF up THEN (a - MaxI32 - 1) - (b + MaxI32 + 1)
                  ELSE IF down THEN (a + MaxI32 + 1) - (b - MaxI32 - 1)
                  ELSE a - b ]

\* i32::pow(2).
Pow2(a) == Mul32(a, a)

(***************************************************************************)
(* region_coordinates                                                      *)
(*                                                                         *)
(* A filename is a sequence of characters, each a one-character string;    *)
(* "u0663" stands for U+0663 ARABIC-INDIC DIGIT THREE, a decimal digit     *)
(* that is not ASCII.                                                      *)
(***************************************************************************)
AsciiDigits == {"0", "1", "2", "3", "4", "5", "6", "7", "8", "9"}

DigitValue(c) ==
    CASE c = "0" -> 0 [] c = "1" -> 1 [] c = "2" -> 2 [] c = "3" -> 3
      [] c = "4" -> 4 [] c = "5" -> 5 [] c = "6" -> 6 [] c = "7" -> 7
      [] c = "8" -> 8 [] c = "9" -> 9

\* \d of the regex crate is Unicode-aware: it matches any decimal digit.
RegexDigit(c) == c \in AsciiDigits \cup {"u0663"}

\* . of the regex crate matches any character but a line feed.
RegexAny(c) == c # "\n"

\* Whether the literal lit stands at position i of f.
LitAt(f, i, lit) ==
    /\ i >= 1
    /\ i + Len(lit) - 1 <= Len(f)
    /\ SubSeq(f, i, i + Len(lit) - 1) = lit

\* The ends e of the matches of (-?\d+) that start at position i: the
\* optional sign is taken when it is there (\d cannot match it), and \d+
\* may stop after any digit of the run.
GroupEnds(f, i) ==
    LET p == IF i <= Len(f) /\ f[i] = "-" THEN i + 1 ELSE i
    IN  {e \in p..Len(f) : \A k \in p..e : RegexDigit(f[k])}

\* The ends e2 of the second group in the matches that start at s and
\* whose first group ends at e1: . takes one character, and \.mca follows.
SecondEnds(f, e1) ==
    IF e1 + 1 <= Len(f) /\ RegexAny(f[e1 + 1])
    THEN {e2 \in GroupEnds(f, e1 + 2) : LitAt(f, e2 + 1, <<".", "m", "c", "a">>)}
    ELSE {}

\* The ends e1 of the first group in the matches that start at s.
FirstEnds(f, s) ==
    IF LitAt(f, s, <<"r", ".">>)
    THEN {e1 \in GroupEnds(f, s + 2) : SecondEnds(f, e1) # {}}
    ELSE {}

SetMax(S) == CHOOSE m \in S : \A n \in S : n <= m
SetMin(S) == CHOOSE m \in S : \A n \in S : m <= n

\* How the first group repeats \d+: greedily, the longest run first.
FirstGroupEnd(S) == SetMax(S)

\* Regex::captures for r"r\.(-?\d+).(-?\d+)\.mca": an unanchored search,
\* the leftmost match, and among those the one the greedy operators
\* prefer.  << >> when nothing matches, else << group 1, group 2 >>.
Captures(f) ==
    LET starts == {s \in 1..Len(f) : FirstEnds(f, s) # {}}
    IN  IF starts = {} THEN << >>
        ELSE LET s  == SetMin(starts)
                 e1 == FirstGroupEnd(FirstEnds(f, s))
                 e2 == SetMax(SecondEnds(f, e1))
             IN  << SubSeq(f, s + 2, e1), SubSeq(f, e1 + 2, e2) >>

ParseErr == [ok |-> FALSE, val |-> 0]

RECURSIVE ParseDigits(_, _, _, _)
\* The digits t[k..] folded into acc, away from zero for a negative number;
\* an error on a character that is no ASCII digit and on leaving the i32
\* range.
ParseDigits(t, k, acc, negative) ==
    IF k > Len(t) THEN [ok |-> TRUE, val |-> acc]
    ELSE IF t[k] \notin AsciiDigits THEN ParseErr
    ELSE LET d == DigitValue(t[k])
         IN  IF negative
             THEN IF acc < MinI32 \div 10 + 1
                     \/ (acc = MinI32 \div 10 + 1 /\ d > 8)
                  THEN ParseErr
                  ELSE ParseDigits(t, k + 1, acc * 10 - d, negative)
             ELSE IF acc > MaxI32 \div 10
                     \/ (acc = MaxI32 \div 10 /\ d > 7)
                  THEN ParseErr
                  ELSE ParseDigits(t, k + 1, acc * 10 + d, negative)

\* str::parse::<i32>: an optional sign, then one ASCII digit or more.
ParseI32(t) ==
    LET signed == Len(t) > 0 /\ t[1] \in {"-", "+"}
        first  == IF signed THEN 2 ELSE 1
    IN  IF first > Len(t) THEN ParseErr
        ELSE ParseDigits(t, first, 0, signed /\ t[1] = "-")

\* A slip in the scale: the 32 chunks of a region, not their 16 blocks.
RegionScaleChunks(v) == Mul32(v, 32)

\* parsed * 32 * 16.
RegionScale(v) ==
    LET a == Mul32(v, 32)
        b == Mul32(a.val, 16)
    IN  [ovf |-> a.ovf \/ b.ovf, val |-> b.val]

\* region_coordinates(filename) in a build with (checks) or without
\* overflow checks: Ok with the origin, Err, or a panic.
region_coordinates(filename, checks) ==
    LET captures == Captures(filename)
        Err(e)   == [tag |-> "Err", err |-> e, x |-> 0, z |-> 0]
        Panic    == [tag |-> "Panic", err |-> "overflow", x |-> 0, z |-> 0]
    IN  IF captures = << >> THEN Err("format")
        ELSE LET px == ParseI32(captures[1])
                 pz == ParseI32(captures[2])
                 x  == RegionScale(px.val)
                 z  == RegionScale(pz.val)
             IN  IF ~px.ok THEN Err("parse")
                 ELSE IF x.ovf /\ checks THEN Panic
                 ELSE IF ~pz.ok THEN Err("parse")
                 ELSE IF z.ovf /\ checks THEN Panic
                 ELSE [tag |-> "Ok", err |-> "", x |-> x.val, z |-> z.val]

(***************************************************************************)
(* The inputs of a run                                                     *)
(***************************************************************************)
\* Option<T> is a sequence: << >> for None, << v >> for Some(v).
None == << >>
Some(v) == << v >>

\* Block names and the search substring are sequences of characters.
Air       == <<"a", "i", "r">>
Stone     == <<"s", "t", "o", "n", "e">>
OakLog    == <<"o", "a", "k", "_", "l", "o", "g">>
SpruceLog == <<"s", "p", "r", "u", "c", "e", "_", "l", "o", "g">>

FullStatus == "minecraft:full"

\* The number of 16 x 16 block layers of the tallest chunk of the model.
MaxLayers == 2

\* A chunk slot of a region as Region::iter yields it.  readable: the item
\* is Ok (a chunk's bytes) and not Err; decodable: Chunk::from_bytes
\* succeeds on the bytes; blocks: the names iter_blocks yields, fill but at
\* the indices of at.
ChunkData(x, z, readable, decodable, status, y_start, layers, fill, at) ==
    [x |-> x, z |-> z, readable |-> readable, decodable |-> decodable,
     status |-> status, y_start |-> y_start, layers |-> layers,
     fill |-> fill, at |-> at]

\* A directory entry as fs::read_dir yields it.  ok: the entry is Ok and
\* not Err; openable: File::open succeeds; valid: Region::from_stream
\* succeeds; chunks: the chunk slots in the order Region::iter visits them.
Entry(ok, name, openable, valid, chunks) ==
    [ok |-> ok, name |-> name, openable |-> openable, valid |-> valid,
     chunks |-> chunks]

Mca == <<".", "m", "c", "a">>

\* The directory entries of the model, by name.
EntryOf(id) ==
    CASE id = "home" ->
           Entry(TRUE, <<"r", ".", "0", ".", "0">> \o Mca, TRUE, TRUE,
             << ChunkData(1, 2, TRUE, TRUE, FullStatus, -64, MaxLayers, Air,
                          (5 :> OakLog) @@ (37 :> OakLog) @@ (300 :> SpruceLog)
                          @@ (16 * 16 * MaxLayers - 1 :> Stone)),
                ChunkData(0, 0, TRUE, TRUE, "minecraft:features", -64, 1, Air,
                          (0 :> OakLog)) >>)
      [] id = "west" ->
           Entry(TRUE, <<"r", ".", "-", "1", ".", "0">> \o Mca, TRUE, TRUE,
             << ChunkData(0, 0, FALSE, FALSE, FullStatus, 0, 1, Air, << >>),
                ChunkData(31, 0, TRUE, TRUE, FullStatus, 0, MaxLayers, Stone,
                          (16 * 16 * MaxLayers - 1 :> OakLog)),
                ChunkData(3, 3, TRUE, TRUE, FullStatus, 0, 1, Stone, << >>) >>)
      [] id = "far" ->
           Entry(TRUE, <<"r", ".", "9", "1", ".", "0">> \o Mca, TRUE, TRUE,
             << ChunkData(0, 0, TRUE, TRUE, FullStatus, 0, 1, Air,
                          (0 :> SpruceLog)) >>)
      [] id = "bent" ->
           Entry(TRUE, <<"r", ".", "0", ".", "1">> \o Mca, TRUE, TRUE,
             << ChunkData(0, 0, TRUE, TRUE, FullStatus, 0, 1, Air,
                          (17 :> OakLog)),
                ChunkData(1, 0, TRUE, FALSE, FullStatus, 0, 1, Air, << >>) >>)
      [] id = "level" ->
           Entry(TRUE, <<"l", "e", "v", "e", "l", ".", "d", "a", "t">>,
                 TRUE, TRUE, << >>)
      [] id = "torn" ->
           Entry(TRUE, <<"r", ".", "1", ".", "1">> \o Mca, TRUE, FALSE, << >>)
      [] id = "locked" ->
           Entry(TRUE, <<"r", ".", "1", ".", "0">> \o Mca, FALSE, TRUE, << >>)
      [] id = "lost" ->
           Entry(FALSE, << >>, FALSE, FALSE, << >>)

EntryIds == {"home", "west", "far", "bent", "level", "torn", "locked", "lost"}

\* The most entries a directory of the model holds.
MaxFiles == 2

\* Directory listings: up to MaxFiles different entries, in any order.
Listings ==
    {l \in UNION {[1..n -> EntryIds] : n \in 0..MaxFiles} :
        \A i, j \in DOMAIN l : i # j => l[i] # l[j]}

Patterns == { <<"l", "o", "g">> }
Homes == { None, Some(<<16, 32>>) }
MaxDistances == { None, Some(100), Some(50000) }

(***************************************************************************)
(* find_blocks                                                             *)
(***************************************************************************)
\* str::contains: pat stands somewhere in name.
Contains(name, pat) ==
    \E i \in 1..(Len(name) - Len(pat) + 1) : SubSeq(name, i, i + Len(pat) - 1) = pat

\* max_distance.map(|m| (home.unwrap_or((0, 0)), m)).
ChunkDistanceFilter(home, max_distance) ==
    IF max_distance = None THEN None
    ELSE Some(<< IF home = None THEN <<0, 0>> ELSE home[1], max_distance[1] >>)

\* (px - from_x).pow(2) + (pz - from_z).pow(2) in i32.
SquaredDistance(px, pz, from) ==
    LET dx == Sub32(px, from[1])
        sx == Pow2(dx.val)
        dz == Sub32(pz, from[2])
        sz == Pow2(dz.val)
        d  == Add32(sx.val, sz.val)
    IN  [ovf |-> dx.ovf \/ sx.ovf \/ dz.ovf \/ sz.ovf \/ d.ovf, val |-> d.val]

\* The comparison of the two distance tests.
TooFar(d, m) == d > m

\* The distance test of a point: ovf when an operation overflows, reject
\* when the (wrapped) squared distance exceeds the (wrapped) maxdist.pow(2).
DistanceTest(px, pz, filter) ==
    LET d == SquaredDistance(px, pz, filter[1])
        m == Pow2(filter[2])
    IN  [ovf |-> d.ovf \/ m.ovf, reject |-> TooFar(d.val, m.val)]

\* The name of block i of a decoded chunk.
BlockName(c, i) == IF i \in DOMAIN c.at THEN c.at[i] ELSE c.fill

\* The number of blocks iter_blocks yields.
BlockCount(c) == 16 * 16 * c.layers

RECURSIVE Ascending(_)
\* The numbers of a finite set in increasing order.
Ascending(S) ==
    IF S = {} THEN << >>
    ELSE LET m == SetMin(S) IN << m >> \o Ascending(S \ {m})

\* The offsets of linear block index i from the chunk's origin.
OffsetX(i) == i % 16

\* A slip in the z offset: the row of the block, not wrapped at a layer.
OffsetZUnwrapped(i) == i \div 16

OffsetZ(i) == (i \div 16) % 16
OffsetY(i) == i \div (16 * 16)

\* One element of found_blocks: ((x, y, z), name) of the block at index i.
FoundBlock(c, i, chunk_x, chunk_y, chunk_z) ==
    LET x == Add32(chunk_x, OffsetX(i))
        z == Add32(chunk_z, OffsetZ(i))
        y == Add32(chunk_y, OffsetY(i))
    IN  [ovf |-> x.ovf \/ z.ovf \/ y.ovf,
         val |-> << <<x.val, y.val, z.val>>, BlockName(c, i) >>]

\* A slip in the status test: every chunk is taken for complete.
CompleteAlways(c) == TRUE

\* Whether a decoded chunk is one the loop goes on with.
Complete(c) == c.status = FullStatus

\* One turn of the loop over region.iter().flatten() for a chunk slot that
\* is Ok: "err" when the chunk does not decode, "panic" on an overflow in a
\* build with overflow checks, "skip" when the chunk is not complete, too
\* far or without a matching block, else "push" with the BlockResults.
ScanChunk(region_x, region_z, c, block_name, filter, checks) ==
    LET mx      == Mul32(c.x, 16)
        chunk_x == Add32(region_x, mx.val)
        mz      == Mul32(c.z, 16)
        chunk_z == Add32(region_z, mz.val)
        chunk_y == c.y_start
        test    == DistanceTest(chunk_x.val, chunk_z.val, filter[1])
        hits    == Ascending({i \in 0..(BlockCount(c) - 1) :
                                Contains(BlockName(c, i), block_name)})
        found   == [k \in DOMAIN hits |->
                      FoundBlock(c, hits[k], chunk_x.val, chunk_y, chunk_z.val)]
        Out(tag, blocks) ==
            [tag |-> tag,
             result |-> [chunk |-> <<chunk_x.val, chunk_y, chunk_z.val>>,
                         blocks |-> blocks]]
    IN  IF ~c.decodable THEN [tag |-> "err", result |-> << >>]
        ELSE IF ~Complete(c) THEN [tag |-> "skip", result |-> << >>]
        ELSE IF checks /\ (mx.ovf \/ chunk_x.ovf \/ mz.ovf \/ chunk_z.ovf)
             THEN [tag |-> "panic", result |-> << >>]
        ELSE IF filter # None /\ checks /\ test.ovf
             THEN [tag |-> "panic", result |-> << >>]
        ELSE IF filter # None /\ test.reject THEN [tag |-> "skip", result |-> << >>]
        ELSE IF checks /\ \E k \in DOMAIN found : found[k].ovf
             THEN [tag |-> "panic", result |-> << >>]
        ELSE IF found = << >> THEN [tag |-> "skip", result |-> << >>]
        ELSE Out("push", [k \in DOMAIN found |-> found[k].val])

(***************************************************************************)
(* The state of a run of main                                              *)
(***************************************************************************)
VARIABLES
    overflow_checks, \* whether the build panics on an i32 overflow
    block,           \* the search substring
    home,            \* config.home: Option<(i32, i32)>
    max_distance,    \* Option<i32>
    show_all,        \* args.show_all
    dir,             \* what fs::read_dir finds: ok, and the entries' names
    paths,           \* the entries that are Ok, in the order of the listing
    task,            \* per path, the state of its call of find_blocks
    main_pc,         \* where the main thread is
    results,         \* the collected Vec<BlockResults>
    sorted_results,  \* results after the sort
    found_chunks,    \* the "Found chunks: n" line: None until printed
    printed,         \* per turn of the loop over sorted_results, its lines
    rc               \* a call of region_coordinates on its own

run_vars ==
    << overflow_checks, block, home, max_distance, show_all, dir, paths, task,
       main_pc, results, sorted_results, found_chunks, printed >>

vars == << run_vars, rc >>

chunk_distance_filter == ChunkDistanceFilter(home, max_distance)

NoRegion == <<0, 0>>

\* A task before its first step.
ReadyTask ==
    [pc |-> "ready", region |-> NoRegion, decoded |-> FALSE, k |-> 0,
     results |-> << >>]

\* A task that panicked: the unwinding dropped what it held.
FailedTask == [ReadyTask EXCEPT !.pc = "failed"]

IdleCall == [pc |-> "idle", filename |-> << >>, checks |-> FALSE,
             result |-> [tag |-> "Err", err |-> "", x |-> 0, z |-> 0]]

Init ==
    /\ overflow_checks \in BOOLEAN
    /\ block \in Patterns
    /\ home \in Homes
    /\ max_distance \in MaxDistances
    /\ show_all \in BOOLEAN
    /\ dir \in {[ok |-> FALSE, entries |-> << >>]}
               \cup {[ok |-> TRUE, entries |-> l] : l \in Listings}
    /\ paths = << >>
    /\ task = << >>
    /\ main_pc = "read_dir"
    /\ results = << >>
    /\ sorted_results = << >>
    /\ found_chunks = None
    /\ printed = << >>
    /\ rc = IdleCall

Fixed == UNCHANGED << overflow_checks, block, home, max_distance, show_all, dir, rc >>

\* Iterator::flatten over Results: the Ok items, in order.
FlattenOk(entries) == SelectSeq(entries, LAMBDA id : EntryOf(id).ok)

\* fs::read_dir(path).expect("Invalid region path."): the directory cannot
\* be read.
ReadDirFails ==
    /\ main_pc = "read_dir"
    /\ ~dir.ok
    /\ main_pc' = "panicked"
    /\ UNCHANGED << paths, task, results, sorted_results, found_chunks, printed >>
    /\ Fixed

\* let paths = fs::read_dir(path)...flatten().map(|x| x.path()).collect(),
\* and the start of the parallel iteration: one task per path.
ReadDir ==
    /\ main_pc = "read_dir"
    /\ dir.ok
    /\ paths' = FlattenOk(dir.entries)
    /\ task' = [i \in 1..Len(paths') |-> ReadyTask]
    /\ main_pc' = "par_iter"
    /\ UNCHANGED << results, sorted_results, found_chunks, printed >>
    /\ Fixed

TaskStep(i, t) ==
    /\ task' = [task EXCEPT ![i] = t]
    /\ UNCHANGED << paths, main_pc, results, sorted_results, found_chunks, printed >>
    /\ Fixed

\* The closure of a path up to the region's distance test: the file is
\* opened (fs::File::open(path).unwrap(), an argument of the call), then
\* find_blocks takes the origin from the filename, prints the progress
\* line and returns Ok(vec![]) for a region too far.
Enter(i) ==
    /\ main_pc = "par_iter"
    /\ task[i].pc = "ready"
    /\ LET r    == region_coordinates(EntryOf(paths[i]).name, overflow_checks)
           test == DistanceTest(r.x, r.z, chunk_distance_filter[1])
       IN  TaskStep(i,
             IF ~EntryOf(paths[i]).openable THEN FailedTask
             ELSE IF r.tag # "Ok" THEN FailedTask
             ELSE IF chunk_distance_filter = None
                  THEN [task[i] EXCEPT !.pc = "resolved", !.region = <<r.x, r.z>>]
             ELSE IF overflow_checks /\ test.ovf
                  THEN FailedTask
             ELSE IF test.reject
                  THEN [task[i] EXCEPT !.pc = "done", !.region = <<r.x, r.z>>]
             ELSE [task[i] EXCEPT !.pc = "resolved", !.region = <<r.x, r.z>>])

\* fastanvil::Region::from_stream(stream)?
Decode(i) ==
    /\ main_pc = "par_iter"
    /\ task[i].pc = "resolved"
    /\ TaskStep(i, IF EntryOf(paths[i]).valid
                    THEN [task[i] EXCEPT !.pc = "scanning", !.decoded = TRUE, !.k = 1]
                    ELSE FailedTask)

\* One turn of the loop over region.iter().flatten(): an Err item is
\* dropped by flatten, an Ok item is scanned.
Scan(i) ==
    /\ main_pc = "par_iter"
    /\ task[i].pc = "scanning"
    /\ task[i].k <= Len(EntryOf(paths[i]).chunks)
    /\ LET c   == EntryOf(paths[i]).chunks[task[i].k]
           out == ScanChunk(task[i].region[1], task[i].region[2], c, block,
                            chunk_distance_filter, overflow_checks)
       IN  TaskStep(i,
             IF ~c.readable THEN [task[i] EXCEPT !.k = @ + 1]
             ELSE IF out.tag \in {"err", "panic"} THEN FailedTask
             ELSE IF out.tag = "skip" THEN [task[i] EXCEPT !.k = @ + 1]
             ELSE [task[i] EXCEPT !.k = @ + 1,
                                  !.results = Append(@, out.result)])

\* Ok(results), after the last chunk slot.
Return(i) ==
    /\ main_pc = "par_iter"
    /\ task[i].pc = "scanning"
    /\ task[i].k > Len(EntryOf(paths[i]).chunks)
    /\ TaskStep(i, [task[i] EXCEPT !.pc = "done"])

\* A task panicked (an unwrap of an error, or an overflow): the panic
\* reaches the main thread and ends the process, and with it the tasks.
Abort ==
    /\ main_pc = "par_iter"
    /\ \E i \in DOMAIN task : task[i].pc = "failed"
    /\ main_pc' = "panicked"
    /\ paths' = << >>
    /\ task' = << >>
    /\ UNCHANGED << results, sorted_results, found_chunks, printed >>
    /\ Fixed

RECURSIVE FlatMap(_, _)
\* The tasks' results chained in the order of the paths, from task n down.
FlatMap(ts, n) ==
    IF n = 0 THEN << >> ELSE FlatMap(ts, n - 1) \o ts[n].results

RECURSIVE FlatMapBack(_, _)
\* The tasks' results chained against the order of the paths.
FlatMapBack(ts, n) ==
    IF n = 0 THEN << >> ELSE ts[n].results \o FlatMapBack(ts, n - 1)

\* A slip in the collection: the halves of the reduction swapped.
GatherSwapped(ts) == FlatMapBack(ts, Len(ts))

\* What par_iter().flat_map(..).collect() builds from the finished tasks:
\* collect into a Vec keeps the order of the items of the iterator.
Gather(ts) == FlatMap(ts, Len(ts))

\* .collect(): every task has returned.
Collect ==
    /\ main_pc = "par_iter"
    /\ \A i \in DOMAIN task : task[i].pc = "done"
    /\ results' = Gather(task)
    /\ main_pc' = "collected"
    /\ UNCHANGED << paths, task, sorted_results, found_chunks, printed >>
    /\ Fixed

\* println!("Found chunks: {}", results.len()).
Summary ==
    /\ main_pc = "collected"
    /\ found_chunks' = Some(Len(results))
    /\ main_pc' = "summary"
    /\ UNCHANGED << paths, task, results, sorted_results, printed >>
    /\ Fixed

(***************************************************************************)
(* The post-processing of the collected results                            *)
(***************************************************************************)
\* The key of sort_by_key: the squared distance of a chunk from home, i32.
SortKey(r) == SquaredDistance(r.chunk[1], r.chunk[3], home[1])

RECURSIVE StableOrder(_, _)
\* The indices 1..n of keys in the order a stable sort puts them:
\* ascending by key, equal keys in their first order.
StableOrder(keys, n) ==
    IF n = 0 THEN << >>
    ELSE LET prev == StableOrder(keys, n - 1)
             stay == Cardinality({j \in 1..(n - 1) : keys[prev[j]] <= keys[n]})
         IN  SubSeq(prev, 1, stay) \o << n >> \o SubSeq(prev, stay + 1, n - 1)

\* sorted_results.sort_by_key(..) on rs.
SortByKey(rs) ==
    LET keys  == [i \in 1..Len(rs) |-> SortKey(rs[i]).val]
        order == StableOrder(keys, Len(rs))
    IN  [i \in 1..Len(rs) |-> rs[order[i]]]

\* if let Some(..) = home { sorted_results.sort_by_key(..) }.  The key is
\* computed only when there are two elements to compare.
Sort ==
    /\ main_pc = "summary"
    /\ IF home # None /\ overflow_checks /\ Len(results) >= 2
          /\ \E i \in DOMAIN results : SortKey(results[i]).ovf
       THEN main_pc' = "panicked" /\ UNCHANGED sorted_results
       ELSE /\ main_pc' = "emit"
            /\ sorted_results' = IF home = None THEN results ELSE SortByKey(results)
    /\ UNCHANGED << paths, task, results, found_chunks, printed >>
    /\ Fixed

\* A slip in the count: a name seen for the first time starts at one.
OrInsertOne == 2 - 1

\* What the entry API adds to for a name seen for the first time.
OrInsert == 0

RECURSIVE BlockCounts(_, _)
\* The fold into block_counts over the first n blocks: name -> count.
BlockCounts(blocks, n) ==
    IF n = 0 THEN << >>
    ELSE LET acc == BlockCounts(blocks, n - 1)
             b   == blocks[n][2]
         IN  IF b \in DOMAIN acc THEN [acc EXCEPT ![b] = @ + 1]
             ELSE [x \in DOMAIN acc \cup {b} |->
                     IF x = b THEN OrInsert + 1 ELSE acc[x]]

\* The orders in which a HashMap with the keys S can be iterated.
IterationOrders(S) ==
    {o \in [1..Cardinality(S) -> S] : \A i, j \in DOMAIN o : i # j => o[i] # o[j]}

\* The lines of one chunk when every block is shown: "x y z - name".
AllLines(r) == [k \in 1..Len(r.blocks) |-> [at |-> r.blocks[k][1], name |-> r.blocks[k][2]]]

\* The lines of one chunk when blocks are counted: "x y z - name (count)",
\* in the order order of the names.
CountLines(r, order) ==
    LET counts == BlockCounts(r.blocks, Len(r.blocks))
    IN  [k \in 1..Len(order) |->
            [at |-> r.chunk, name |-> order[k], count |-> counts[order[k]]]]

PrintStep(lines) ==
    /\ printed' = Append(printed, lines)
    /\ UNCHANGED << paths, task, main_pc, results, sorted_results, found_chunks >>
    /\ Fixed

\* One turn of for r in sorted_results, show_all.
EmitAll ==
    /\ main_pc = "emit"
    /\ Len(printed) < Len(sorted_results)
    /\ show_all
    /\ PrintStep(AllLines(sorted_results[Len(printed) + 1]))

\* One turn of for r in sorted_results, not show_all.
EmitCounts ==
    /\ main_pc = "emit"
    /\ Len(printed) < Len(sorted_results)
    /\ ~show_all
    /\ LET r == sorted_results[Len(printed) + 1]
       IN  \E order \in IterationOrders({r.blocks[k][2] : k \in DOMAIN r.blocks}) :
             PrintStep(CountLines(r, order))

\* The end of main.
Exit ==
    /\ main_pc = "emit"
    /\ Len(printed) = Len(sorted_results)
    /\ main_pc' = "done"
    /\ UNCHANGED << paths, task, results, sorted_results, found_chunks, printed >>
    /\ Fixed

Next ==
    \/ ReadDirFails
    \/ ReadDir
    \/ \E i \in DOMAIN task : Enter(i)
    \/ \E i \in DOMAIN task : Decode(i)
    \/ \E i \in DOMAIN task : Scan(i)
    \/ \E i \in DOMAIN task : Return(i)
    \/ Abort
    \/ Collect
    \/ Summary
    \/ Sort
    \/ EmitAll
    \/ EmitCounts
    \/ Exit

Spec == Init /\ [][Next]_vars

(***************************************************************************)
(* region_coordinates on its own, over a set of filenames                  *)
(***************************************************************************)
NamePrefixes == { << >>, <<"x">>, <<"d", "/">> }
NameHeads    == { <<"r", ".">>, <<"r", "x">> }
NameSeps     == { <<".">>, <<"x">>, <<"-">> }
NameTails    == { Mca, <<"x", "m", "c", "a">>, Mca \o <<".", "b", "a", "k">>,
                  <<".", "m", "c">> }
NameXs ==
    { <<"0">>, <<"7">>, <<"-", "1">>, <<"1", "2">>, <<"0", "0", "7">>,
      <<"4", "1", "9", "4", "3", "0", "3">>, <<"4", "1", "9", "4", "3", "0", "4">>,
      <<"-", "4", "1", "9", "4", "3", "0", "4">>,
      <<"-", "4", "1", "9", "4", "3", "0", "5">>,
      <<"2", "1", "4", "7", "4", "8", "3", "6", "4", "8">>,
      <<"-", "2", "1", "4", "7", "4", "8", "3", "6", "4", "8">>,
      <<"u0663">>, <<"1", "u0663">>, << >>, <<"-">>, <<"+", "1">>, <<"-", "-", "1">> }
NameZs ==
    { <<"0">>, <<"-", "3">>, <<"4", "5">>,
      <<"-", "4", "1", "9", "4", "3", "0", "4">>,
      <<"4", "1", "9", "4", "3", "0", "4">>,
      <<"9", "9", "9", "9", "9", "9", "9", "9", "9", "9", "9">>,
      <<"u0663">>, << >> }

FileNames ==
    { p \o h \o x \o sep \o z \o t :
        p \in NamePrefixes, h \in NameHeads, x \in NameXs, sep \in NameSeps,
        z \in NameZs, t \in NameTails }

InitRC ==
    /\ rc \in [pc : {"call"}, filename : FileNames, checks : BOOLEAN,
               result : {IdleCall.result}]
    /\ overflow_checks = FALSE
    /\ block = << >>
    /\ home = None
    /\ max_distance = None
    /\ show_all = FALSE
    /\ dir = [ok |-> FALSE, entries |-> << >>]
    /\ paths = << >>
    /\ task = << >>
    /\ main_pc = "off"
    /\ results = << >>
    /\ sorted_results = << >>
    /\ found_chunks = None
    /\ printed = << >>

\* region_coordinates(filename) is called and returns (or panics).
CallRegionCoordinates ==
    /\ rc.pc = "call"
    /\ rc' = [rc EXCEPT !.pc = "returned",
                        !.result = region_coordinates(rc.filename, rc.checks)]
    /\ UNCHANGED run_vars

NextRC == CallRegionCoordinates

SpecRC == InitRC /\ [][NextRC]_vars

(***************************************************************************)
(* find_blocks as a function of a file: what a call returns when no step   *)
(* of it fails                                                             *)
(***************************************************************************)
RECURSIVE ScanFrom(_, _, _, _)
\* The BlockResults pushed for the chunk slots k.. of chunks.
ScanFrom(region_x, region_z, chunks, k) ==
    IF k > Len(chunks) THEN << >>
    ELSE LET c   == chunks[k]
             out == ScanChunk(region_x, region_z, c, block,
                              chunk_distance_filter, overflow_checks)
         IN  (IF c.readable /\ out.tag = "push" THEN << out.result >> ELSE << >>)
                \o ScanFrom(region_x, region_z, chunks, k + 1)

find_blocks(id) ==
    LET r == region_coordinates(EntryOf(id).name, overflow_checks)
    IN  IF chunk_distance_filter # None
           /\ DistanceTest(r.x, r.z, chunk_distance_filter[1]).reject
        THEN << >>
        ELSE ScanFrom(r.x, r.z, EntryOf(id).chunks, 1)

(***************************************************************************)
(* The claims                                                              *)
(***************************************************************************)
\* Exact squared distances, for the statements: 64-bit values as 16-bit
\* limbs, the lowest first.
WideAdd(A, B) ==
    LET s1 == A[1] + B[1]
        s2 == A[2] + B[2] + s1 \div Half
        s3 == A[3] + B[3] + s2 \div Half
        s4 == A[4] + B[4] + s3 \div Half
    IN  << s1 % Half, s2 % Half, s3 % Half, s4 % Half, s4 \div Half >>

WideLeq(A, B) ==
    \/ A = B
    \/ \E k \in 1..5 : A[k] < B[k] /\ \A j \in (k + 1)..5 : A[j] = B[j]

ExactSquaredDistance(px, pz, from) ==
    WideAdd(MagProduct(px - from[1], px - from[1]),
            MagProduct(pz - from[2], pz - from[2]))

\* A point passes a distance filter: its squared distance from the
\* filter's origin is at most max_distance squared, in the integers.
Passes(px, pz, filter) ==
    WideLeq(ExactSquaredDistance(px, pz, filter[1]),
            WideAdd(MagProduct(filter[2], filter[2]), <<0, 0, 0, 0>>))

PostStates == {"collected", "summary", "emit", "done"}

\* The task has the origin of its region: region_coordinates returned Ok
\* and the call went on to the region's distance test.
HasRegion(i) == task[i].pc \in {"resolved", "scanning", "done"}

\* The world origin of chunk slot c of the region of task i.
ChunkOrigin(i, c) ==
    << task[i].region[1] + 16 * c.x, c.y_start, task[i].region[2] + 16 * c.z >>

\* The task returned Ok(vec![]) at the region's distance test.
Pruned(i) == task[i].pc = "done" /\ ~task[i].decoded

\* C1 (as claimed): region-level pruning is conservative; a file that
\* find_blocks discards at region level holds no chunk whose world origin
\* passes the distance filter.
C1_PruningConservative ==
    \A i \in DOMAIN task :
        (chunk_distance_filter # None /\ Pruned(i)) =>
            \A k \in DOMAIN EntryOf(paths[i]).chunks :
                LET c == EntryOf(paths[i]).chunks[k]
                    o == ChunkOrigin(i, c)
                IN  (c.readable /\ c.decodable) =>
                        ~Passes(o[1], o[3], chunk_distance_filter[1])

\* C2: no chunk whose status is not "minecraft:full" contributes a
\* ChunkResult to the output of find_blocks; every result of a task is at
\* the origin of a fully generated chunk of its file and at the origin of
\* no other chunk of it.
C2_OnlyFullChunks ==
    \A i \in DOMAIN task :
        \A n \in DOMAIN task[i].results :
            LET chunks == EntryOf(paths[i]).chunks
                from   == {k \in DOMAIN chunks :
                             ChunkOrigin(i, chunks[k]) = task[i].results[n].chunk}
            IN  /\ from # {}
                /\ \A k \in from : chunks[k].status = "minecraft:full"

\* C2's case: a call returned a result from a file that also holds a chunk
\* that is not fully generated and has a matching block.
C2_Witness ==
    \E i \in DOMAIN task :
        /\ task[i].pc = "done"
        /\ task[i].results # << >>
        /\ \E k \in DOMAIN EntryOf(paths[i]).chunks :
              LET c == EntryOf(paths[i]).chunks[k]
              IN  /\ c.status # "minecraft:full"
                  /\ c.readable /\ c.decodable
                  /\ \E j \in DOMAIN c.at : Contains(c.at[j], block)

\* The indices of the blocks of c whose name contains the search
\* substring: those of at, and the others when fill does.
Matching(c) ==
    {n \in DOMAIN c.at : Contains(c.at[n], block)}
        \cup (IF Contains(c.fill, block)
              THEN (0..(16 * 16 * c.layers - 1)) \ DOMAIN c.at ELSE {})

\* The ChunkResult C5 describes for chunk slot c of the region of task i:
\* one BlockMatch per matching index n, in increasing order of n, at
\* (ox + n mod 16, y_start + n div 256, oz + (n div 16) mod 16).
Described(i, c) ==
    LET o    == ChunkOrigin(i, c)
        hits == Ascending(Matching(c))
    IN  [chunk  |-> o,
         blocks |-> [k \in DOMAIN hits |->
                       << << o[1] + (hits[k] % 16),
                             o[2] + (hits[k] \div 256),
                             o[3] + ((hits[k] \div 16) % 16) >>,
                          IF hits[k] \in DOMAIN c.at THEN c.at[hits[k]] ELSE c.fill >>]]

\* Chunk slot c of task i is a fully generated chunk that the chunk-level
\* distance test of the call lets through.
Searched(i, c) ==
    /\ c.readable /\ c.decodable
    /\ c.status = "minecraft:full"
    /\ \/ chunk_distance_filter = None
       \/ LET o == ChunkOrigin(i, c)
          IN  ~DistanceTest(o[1], o[3], chunk_distance_filter[1]).reject

\* The call of task i went through the loop over the chunks and returned.
Returned(i) == task[i].pc = "done" /\ task[i].decoded

\* C5 (as claimed): every fully generated chunk that passes the filters
\* has, in the output of a call that returned, the ChunkResult described.
C5_EveryChunkEmits ==
    \A i \in DOMAIN task :
        Returned(i) =>
            \A k \in DOMAIN EntryOf(paths[i]).chunks :
                LET c == EntryOf(paths[i]).chunks[k]
                IN  Searched(i, c) =>
                        \E n \in DOMAIN task[i].results :
                            task[i].results[n] = Described(i, c)

RECURSIVE DescribedFrom(_, _)
\* The described ChunkResults of the chunk slots k.. of task i that are
\* searched and hold a matching block, in the order of the slots.
DescribedFrom(i, k) ==
    IF k > Len(EntryOf(paths[i]).chunks) THEN << >>
    ELSE LET c == EntryOf(paths[i]).chunks[k]
         IN  (IF Searched(i, c) /\ Matching(c) # {}
              THEN << Described(i, c) >> ELSE << >>) \o DescribedFrom(i, k + 1)

\* C5 (amended): the output of a call that returned is, in the order of
\* the chunks, exactly the described ChunkResult of every fully generated
\* chunk that passes the filters and holds at least one matching block;
\* a chunk without a matching block has no ChunkResult.
C5_MatchingChunksEmit ==
    \A i \in DOMAIN task :
        Returned(i) => task[i].results = DescribedFrom(i, 1)

\* C5's case: a call returned a chunk's result with three matches, one of
\* them above the chunk's lowest layer and off its first row.
C5_Witness ==
    \E i \in DOMAIN task :
        /\ Returned(i)
        /\ \E n \in DOMAIN task[i].results :
              LET r == task[i].results[n]
              IN  /\ Len(r.blocks) = 3
                  /\ r.blocks[3][1][2] > r.chunk[2]
                  /\ r.blocks[3][1][3] > r.chunk[3]
                  /\ r.blocks[3][1][1] > r.chunk[1]

\* C6 (as claimed): with a distance filter whose test the region's origin
\* fails, the call returns no ChunkResult and decodes nothing.
C6_FarRegionSkipped ==
    \A i \in DOMAIN task :
        ( /\ chunk_distance_filter # None
          /\ HasRegion(i)
          /\ ~Passes(task[i].region[1], task[i].region[2], chunk_distance_filter[1]) )
        => ( /\ task[i].pc = "done"
             /\ task[i].results = << >>
             /\ ~task[i].decoded )

\* s is a rearrangement of t.
IsPermutation(s, t) ==
    /\ Len(s) = Len(t)
    /\ \E f \in [DOMAIN s -> DOMAIN t] :
          /\ \A a, b \in DOMAIN s : a # b => f[a] # f[b]
          /\ \A a \in DOMAIN s : s[a] = t[f[a]]

\* C7 (as claimed): with an origin configured, the results come out in
\* non-decreasing order of their squared distance from it, and are a
\* rearrangement of the collected ones.
C7_SortedByDistance ==
    (home # None /\ main_pc \in {"emit", "done"}) =>
        /\ IsPermutation(sorted_results, results)
        /\ \A a, b \in DOMAIN sorted_results :
              a < b =>
                WideLeq(ExactSquaredDistance(sorted_results[a].chunk[1],
                                             sorted_results[a].chunk[3], home[1]),
                        ExactSquaredDistance(sorted_results[b].chunk[1],
                                             sorted_results[b].chunk[3], home[1]))

RECURSIVE SumCounts(_, _)
SumCounts(lines, n) ==
    IF n = 0 THEN 0 ELSE lines[n].count + SumCounts(lines, n - 1)

\* C8: without show_all, a chunk's lines are one per distinct block name of
\* its matches, each at the chunk's origin with the number of matches of
\* that name, and the counts add up to the number of matches, which is the
\* number of lines show_all prints for the chunk.
C8_GroupedCounts ==
    ~show_all =>
        \A j \in DOMAIN printed :
            LET lines == printed[j]
                r     == sorted_results[j]
            IN  /\ \A a, b \in DOMAIN lines : a # b => lines[a].name # lines[b].name
                /\ {lines[a].name : a \in DOMAIN lines}
                     = {r.blocks[k][2] : k \in DOMAIN r.blocks}
                /\ \A a \in DOMAIN lines :
                      /\ lines[a].at = r.chunk
                      /\ lines[a].count
                           = Cardinality({k \in DOMAIN r.blocks :
                                            r.blocks[k][2] = lines[a].name})
                /\ SumCounts(lines, Len(lines)) = Len(AllLines(r))

\* C8's case: a chunk with three matches of two names was printed on two
\* lines.
C8_Witness ==
    /\ ~show_all
    /\ \E j \in DOMAIN printed :
          /\ Len(printed[j]) = 2
          /\ Len(sorted_results[j].blocks) = 3

\* An error arose in the run so far: the directory or one of its entries
\* could not be read, a task panicked on an error, or the loop of a task
\* went past a chunk slot that is an error.
ErrorArose ==
    \/ main_pc # "read_dir" /\ ~dir.ok
    \/ main_pc # "read_dir" /\ \E n \in DOMAIN dir.entries : ~EntryOf(dir.entries[n]).ok
    \/ \E i \in DOMAIN task :
          \/ task[i].pc = "failed"
          \/ \E k \in DOMAIN EntryOf(paths[i]).chunks :
                /\ task[i].pc \in {"scanning", "done"}
                /\ task[i].decoded
                /\ k < task[i].k
                /\ ~EntryOf(paths[i]).chunks[k].readable

\* C9 (as claimed): once an error arose, neither the summary count nor a
\* match line is printed.
C9_ErrorsEndTheRun ==
    ErrorArose => (found_chunks = None /\ printed = << >>)

RECURSIVE Sequential(_)
\* What a sequential flat_map of find_blocks over the first n paths yields.
Sequential(n) ==
    IF n = 0 THEN << >> ELSE Sequential(n - 1) \o find_blocks(paths[n])

\* C10: whatever the interleaving of the tasks, the post-processor starts
\* only when every task has returned, and with the results a sequential
\* pass over the paths yields, in that order.
C10_Deterministic ==
    main_pc \in PostStates =>
        /\ \A i \in DOMAIN task : task[i].pc = "done"
        /\ results = Sequential(Len(paths))

\* C10's case: two files were searched, each gave a result, and the
\* second file's task returned while the first was still at work.
C10_Witness ==
    /\ main_pc = "par_iter"
    /\ Len(paths) = 2
    /\ task[2].pc = "done" /\ task[2].results # << >>
    /\ task[1].pc = "scanning" /\ task[1].results # << >>

\* t is a signed integer in decimal: an optional minus sign, then one
\* ASCII digit or more.
IsSignedInt(t) ==
    LET first == IF Len(t) > 0 /\ t[1] = "-" THEN 2 ELSE 1
    IN  /\ first <= Len(t)
        /\ \A k \in first..Len(t) : t[k] \in AsciiDigits

\* The ways to read f as r.<X>.<Z>.mca: the pairs << X, Z >>.
Readings(f) ==
    {xz \in {<< SubSeq(f, 3, d - 1), SubSeq(f, d + 1, Len(f) - 4) >> :
               d \in {d \in 4..(Len(f) - 5) : f[d] = "."}} :
        /\ SubSeq(f, 1, 2) = <<"r", ".">>
        /\ SubSeq(f, Len(f) - 3, Len(f)) = <<".", "m", "c", "a">>
        /\ IsSignedInt(xz[1])
        /\ IsSignedInt(xz[2])}

RECURSIVE Decimal(_, _)
\* The number the first n digits of ds write.
Decimal(ds, n) ==
    IF n = 0 THEN 0 ELSE 10 * Decimal(ds, n - 1) + DigitValue(ds[n])

RECURSIVE Significant(_)
\* The digits ds without their leading zeros.
Significant(ds) ==
    IF Len(ds) > 1 /\ ds[1] = "0" THEN Significant(Tail(ds)) ELSE ds

\* The region index a signed integer t writes has a product with 512 that
\* is an i32: it lies in -4194304..4194303.
IndexFits(t) ==
    LET ds == Significant(IF t[1] = "-" THEN Tail(t) ELSE t)
    IN  /\ Len(ds) <= 7
        /\ IF t[1] = "-" THEN Decimal(ds, Len(ds)) <= 4194304
           ELSE Decimal(ds, Len(ds)) <= 4194303

IndexValue(t) ==
    LET ds == Significant(IF t[1] = "-" THEN Tail(t) ELSE t)
    IN  IF t[1] = "-" THEN -Decimal(ds, Len(ds)) ELSE Decimal(ds, Len(ds))

\* C3: for a filename r.<X>.<Z>.mca with signed integers X and Z whose
\* products with 512 are i32, region_coordinates returns Ok((X * 512,
\* Z * 512)).
C3_OriginOfValidName ==
    rc.pc = "returned" =>
        \A xz \in Readings(rc.filename) :
            (IndexFits(xz[1]) /\ IndexFits(xz[2])) =>
                /\ rc.result.tag = "Ok"
                /\ rc.result.x = IndexValue(xz[1]) * 512
                /\ rc.result.z = IndexValue(xz[2]) * 512

\* C3's case: a valid name with two negative indices, the first the least
\* one whose product is an i32, returned its origin.
C3_Witness ==
    /\ rc.pc = "returned"
    /\ \E xz \in Readings(rc.filename) :
          /\ IndexFits(xz[1]) /\ IndexFits(xz[2])
          /\ IndexValue(xz[1]) = -4194304
          /\ IndexValue(xz[2]) = -3
    /\ rc.result.tag = "Ok"
    /\ rc.result.x = MinI32

\* C4 (as claimed): for a string that is not r.<X>.<Z>.mca, or whose X or Z
\* is no i32, region_coordinates returns an error and no origin.
C4_OtherNamesFail ==
    rc.pc = "returned" =>
        ( ~(\E xz \in Readings(rc.filename) : ParseI32(xz[1]).ok /\ ParseI32(xz[2]).ok)
          => rc.result.tag = "Err" )

====
